---- MODULE Spec2Model ----
(***************************************************************************)
(* Naming server of the distributed file system                            *)
(* (distributed_file_system/naming/NamingServer.go).                       *)
(*                                                                         *)
(* Every HTTP request is served by its own goroutine.  A goroutine is      *)
(* modelled by a client identifier with a program counter.  Sections of    *)
(* the code executed under the global mutex mu are one atomic step;        *)
(* statements executed outside mu that touch shared Location fields are    *)
(* split into their loads and stores, so that the lost updates of these    *)
(* unsynchronised accesses are behaviours of the model.                    *)
(*                                                                         *)
(* Strings are sequences of one-character strings: "/a/a" is               *)
(* <<"/", "a", "/", "a">>.                                                 *)
(***************************************************************************)
EXTENDS Integers, Sequences, FiniteSets, TLC

VARIABLES
    locations,      \* heap of Location structs; locations[1] is NAMING_SERVER.root
    registry,       \* NAMING_SERVER.registry
    access_counts,  \* NAMING_SERVER.access_counts
    sent,           \* commands sent to storage servers, in order
    mu,             \* TRUE when mu is held by a goroutine that panicked
    pc,             \* position of each request goroutine
    req,            \* the Lock decoded from the request body
    cur,            \* currentLocation of the running (Un)LockLocation call
    idx,            \* idx argument of the running call
    nxt,            \* sub, the sublocation the call recurses into
    qi,             \* queue_index of the lock (or of the prefix lock sl)
    tmp_n,          \* value loaded by num_locks++
    tmp_s,          \* slice loaded by an append outside mu
    written,        \* the response written by the last step, if any
    nreq,           \* number of /lock requests received so far
    ahead,          \* requests already enqueued on the node when this one was
    snap            \* lock state when an undisturbed /lock, or an /unlock that
                    \* follows no grant, began

vars == <<locations, registry, access_counts, sent, mu, pc, req, cur, idx,
          nxt, qi, tmp_n, tmp_s, written, nreq, ahead, snap>>

----------------------------------------------------------------------------
(* Bounds *)

\* /lock requests accepted in one behaviour
MaxLockRequests == 3

\* locations in the directory tree
MaxLocations == 7

\* registered storage servers
MaxServers == 2

\* commands sent to storage servers in one behaviour
MaxSent == 2

\* characters of a path string sent by a client
MaxPathLen == 3

\* /lock requests accepted in one behaviour of the replication runs
MaxReads == 22

\* /lock requests of the replication runs accepted before a second client
\* starts to send requests
SoloReads == 19

\* the goroutines serving client requests
Clients == {"c1", "c2", "c3"}

(* Path strings *)
P_root == <<"/">>
P_aa   == <<"/", "a", "/", "a">>
P_b    == <<"/", "b">>
P_ab   == <<"/", "a", "/", "b">>
P_rel  == <<"a">>

\* the paths each client asks for
Menu(c) == IF c = "c3" THEN {P_root, P_aa} ELSE {P_root}

----------------------------------------------------------------------------
(* Strings *)

\* strings.Contains(s, ch) for a one-character ch
ContainsChar(s, ch) == \E i \in 1..Len(s) : s[i] = ch

\* strings.Split(s, "/")
RECURSIVE Split(_)
Split(s) ==
    IF ~ContainsChar(s, "/") THEN <<s>>
    ELSE LET i == CHOOSE k \in 1..Len(s) :
                     s[k] = "/" /\ \A j \in 1..(k-1) : s[j] # "/"
         IN <<SubSeq(s, 1, i-1)>> \o Split(SubSeq(s, i+1, Len(s)))

\* IsPathValid with the test for a colon left out
StartsWithSlash(path) == Len(path) > 0 /\ path[1] = "/"

IsPathValid(path) ==
    Len(path) > 0 /\ path[1] = "/" /\ ~ContainsChar(path, ":")

----------------------------------------------------------------------------
(* Location tree *)

Location(name, subs) ==
    [name |-> name, subLocations |-> subs, locks |-> <<>>,
     lock_queue |-> <<>>, num_locks |-> 0, exclusive_locks_waiting |-> <<>>]

Root == 1

\* a[:0] overwritten with a[1:]: the first n elements of the backing array
\* arr are shifted left by one, the array keeps its length
ShiftLeft(arr, n) ==
    [i \in 1..Len(arr) |-> IF i < n THEN arr[i+1] ELSE arr[i]]

\* Location.LocationExists; arr is the backing array of locationNames, n its
\* length, ret the value of *ret; the result is <<*ret, backing array>>
RECURSIVE LocationExists(_, _, _, _, _)
LocationExists(locs, l, arr, n, ret) ==
    LET subs == locs[l].subLocations IN
    IF n = 1 /\ Len(subs) > 0
    THEN <<\E k \in 1..Len(subs) : locs[subs[k]].name = arr[1], arr>>
    ELSE LET midwayLocation == arr[1]
             Step(k, st) ==
                 IF locs[subs[k]].name = midwayLocation
                 THEN LocationExists(locs, subs[k], ShiftLeft(st[2], n), n - 1, st[1])
                 ELSE st
             Loop[k \in 0..Len(subs)] ==
                 IF k = 0 THEN <<ret, arr>> ELSE Step(k, Loop[k-1])
         IN Loop[Len(subs)]

\* an existence test that looks at the first component of the path only
FirstComponentExists(locs, path) ==
    \E k \in 1..Len(locs[Root].subLocations) :
        locs[locs[Root].subLocations[k]].name = Tail(Split(path))[1]

\* the existence test of the /lock, /unlock and /delete handlers
PathExists(locs, path) ==
    LET locs_ == Tail(Split(path))
    IN LocationExists(locs, Root, locs_, Len(locs_), FALSE)[1]

----------------------------------------------------------------------------
(* Outbound storage commands *)

\* the command port of the last registered server that lists the file,
\* 0 when none does (the scan of SendDelete and CallStorageCopy)
RECURSIVE OwnerOf(_, _, _)
OwnerOf(reg, file, field) ==
    IF reg = <<>> THEN 0
    ELSE LET ss == reg[Len(reg)]
         IN IF \E k \in 1..Len(ss.Files) : ss.Files[k] = file
            THEN ss[field]
            ELSE OwnerOf(SubSeq(reg, 1, Len(reg) - 1), file, field)

RECURSIVE DeleteCommands(_, _, _, _)
DeleteCommands(reg, file, owner, all) ==
    IF reg = <<>> THEN <<>>
    ELSE LET port == Head(reg).CommandPort
             rest == DeleteCommands(Tail(reg), file, owner, all)
         IN IF port = owner /\ ~all THEN rest
            ELSE <<[cmd |-> "/storage_delete", to |-> port, path |-> file]>> \o rest

\* SendDelete: the requests it sends
SendDelete(reg, file, all) ==
    IF Len(reg) > 1
    THEN DeleteCommands(reg, file, OwnerOf(reg, file, "CommandPort"), all)
    ELSE <<>>

\* the loop of SendDelete when the storage servers at the command ports down
\* cannot be reached: client.Do fails and the function returns (lines 247-251)
RECURSIVE DeleteCommandsReaching(_, _, _, _, _)
DeleteCommandsReaching(reg, file, owner, all, down) ==
    IF reg = <<>> THEN <<>>
    ELSE LET port == Head(reg).CommandPort
         IN IF port = owner /\ ~all
            THEN DeleteCommandsReaching(Tail(reg), file, owner, all, down)
            ELSE IF port \in down
            THEN <<>>
            ELSE <<[cmd |-> "/storage_delete", to |-> port, path |-> file]>>
                 \o DeleteCommandsReaching(Tail(reg), file, owner, all, down)

\* SendDelete: the requests that reach a storage server
SendDeleteReaching(reg, file, all, down) ==
    IF Len(reg) > 1
    THEN DeleteCommandsReaching(reg, file, OwnerOf(reg, file, "CommandPort"),
                                all, down)
    ELSE <<>>

RECURSIVE CopyCommands(_, _, _, _)
CopyCommands(reg, file, owner, owner_port) ==
    IF reg = <<>> THEN <<>>
    ELSE LET port == Head(reg).CommandPort
             rest == CopyCommands(Tail(reg), file, owner, owner_port)
         IN IF port = owner THEN rest
            ELSE <<[cmd |-> "/storage_copy", to |-> port, path |-> file,
                    server_port |-> owner_port]>> \o rest

\* CallStorageCopy: the requests it sends
CallStorageCopy(reg, file) ==
    LET owner_port == OwnerOf(reg, file, "ClientPort")
    IN IF Len(reg) > 1 /\ owner_port # 0
       THEN CopyCommands(reg, file, OwnerOf(reg, file, "CommandPort"), owner_port)
       ELSE <<>>

REPLICATION_THRESHOLD == 20

\* Increment_Access_Count with the reset of the counter left out
IncrementWithoutReset(counts, reg, file) ==
    LET n == IF file \in DOMAIN counts THEN counts[file] + 1 ELSE 1
        ext == [f \in DOMAIN counts \cup {file} |->
                   IF f = file THEN n ELSE counts[f]]
    IN IF n >= REPLICATION_THRESHOLD
       THEN <<ext, CallStorageCopy(reg, file)>>
       ELSE <<ext, <<>>>>

\* Increment_Access_Count: <<new access_counts, requests sent>>
Increment_Access_Count(counts, reg, file) ==
    LET n == IF file \in DOMAIN counts THEN counts[file] + 1 ELSE 1
        ext == [f \in DOMAIN counts \cup {file} |->
                   IF f = file THEN n ELSE counts[f]]
    IN IF n >= REPLICATION_THRESHOLD
       THEN <<[ext EXCEPT ![file] = 0], CallStorageCopy(reg, file)>>
       ELSE <<ext, <<>>>>

----------------------------------------------------------------------------
(* Initial state: the naming server after one storage server has           *)
(* registered with the single file /a/a (tree  / -> a -> a).               *)

InitLocations ==
    << Location(<<"/">>, <<2>>), Location(<<"a">>, <<3>>), Location(<<"a">>, <<>>) >>

InitRegistry ==
    << [StorageIP |-> "127.0.0.1", ClientPort |-> 1, CommandPort |-> 2,
        Files |-> <<P_aa>>] >>

NoLock == [PathString |-> <<>>, Exclusive |-> FALSE]

NoSnap == [c |-> "none", pre |-> <<>>]

NoResponse == [c |-> "none", req |-> NoLock, status |-> "none"]

Init ==
    /\ locations = InitLocations
    /\ registry = InitRegistry
    /\ access_counts = << >>
    /\ sent = <<>>
    /\ mu = FALSE
    /\ pc = [c \in Clients |-> "idle"]
    /\ req = [c \in Clients |-> NoLock]
    /\ cur = [c \in Clients |-> 0]
    /\ idx = [c \in Clients |-> 0]
    /\ nxt = [c \in Clients |-> 0]
    /\ qi = [c \in Clients |-> 0]
    /\ tmp_n = [c \in Clients |-> 0]
    /\ tmp_s = [c \in Clients |-> <<>>]
    /\ written = NoResponse
    /\ nreq = 0
    /\ ahead = [c \in Clients |-> {}]
    /\ snap = NoSnap

----------------------------------------------------------------------------
(* LockLocation *)

\* locations := strings.Split(lock.PathString, "/")[1:]
Components(path) == Tail(Split(path))

\* the base case test of LockLocation and UnlockLocation
IsTarget(l, path) ==
    \/ locations[l].name = path
    \/ Components(path)[Len(Components(path))] = locations[l].name

\* the first sublocation of l named name, 0 when there is none
FindSub(l, name) ==
    LET subs == locations[l].subLocations
        hits == {k \in 1..Len(subs) : locations[subs[k]].name = name}
    IN IF hits = {} THEN 0
       ELSE subs[CHOOSE k \in hits : \A j \in hits : k <= j]

\* the Lock value held in the goroutine's variable lock
LockOf(c) ==
    [PathString |-> req[c].PathString, Exclusive |-> req[c].Exclusive,
     queue_index |-> qi[c]]

\* sl := Lock{PathString: currentLocation.name, Exclusive: false}
PrefixLockOf(c) ==
    [PathString |-> locations[cur[c]].name, Exclusive |-> FALSE,
     queue_index |-> qi[c]]

\* requests enqueued on location l as its target and not yet released
EnqueuedOn(l) ==
    {d \in Clients :
        /\ cur[d] = l
        /\ \/ pc[d] \in {"base_spin", "holding"}
           \/ pc[d] = "unlock_walk" /\ IsTarget(l, req[d].PathString)}

\* the lock fields of every location
LockState(locs) ==
    [l \in DOMAIN locs |->
        [locks |-> locs[l].locks, lock_queue |-> locs[l].lock_queue,
         exclusive_locks_waiting |-> locs[l].exclusive_locks_waiting]]

\* snap after a step of goroutine c: kept while only c runs
SnapAfter(c) == IF snap.c = c THEN snap ELSE NoSnap

\* ahead after the request of c has left its target location
AheadWithout(c) == [d \in Clients |-> IF d = c THEN {} ELSE ahead[d] \ {c}]

Response(c, status) == [c |-> c, req |-> req[c], status |-> status]

\* the goroutine of c ends: its variables are dead
Return(c) ==
    /\ pc' = [pc EXCEPT ![c] = "idle"]
    /\ req' = [req EXCEPT ![c] = NoLock]
    /\ cur' = [cur EXCEPT ![c] = 0]
    /\ idx' = [idx EXCEPT ![c] = 0]
    /\ nxt' = [nxt EXCEPT ![c] = 0]
    /\ qi' = [qi EXCEPT ![c] = 0]
    /\ tmp_n' = [tmp_n EXCEPT ![c] = 0]

\* HandleServiceCommand, r.RequestURI == LOCK, up to the call of LockLocation,
\* while fewer than bound /lock requests have been accepted
HandleLockWithin(c, path, exclusive, bound) ==
    /\ pc[c] = "idle"
    /\ LET lock == [PathString |-> path, Exclusive |-> exclusive]
       IN IF ~IsPathValid(path)
          THEN /\ written' = [c |-> c, req |-> lock,
                              status |-> "IllegalArgumentException"]
               /\ snap' = NoSnap
               /\ UNCHANGED <<pc, req, cur, idx, nreq>>
          ELSE IF ~PathExists(locations, path) /\ path # P_root
          THEN /\ written' = [c |-> c, req |-> lock,
                              status |-> "FileNotFoundException"]
               /\ snap' = NoSnap
               /\ UNCHANGED <<pc, req, cur, idx, nreq>>
          ELSE /\ nreq < bound
               /\ nreq' = nreq + 1
               /\ written' = NoResponse
               /\ req' = [req EXCEPT ![c] = lock]
               /\ pc' = [pc EXCEPT ![c] = "lock_walk"]
               /\ cur' = [cur EXCEPT ![c] = Root]
               /\ idx' = [idx EXCEPT ![c] = 0]
               /\ snap' = [c |-> c, pre |-> LockState(locations)]
    /\ UNCHANGED <<locations, registry, access_counts, sent, mu, nxt, qi,
                   tmp_n, tmp_s, ahead>>

HandleLock(c, path, exclusive) ==
    HandleLockWithin(c, path, exclusive, MaxLockRequests)

\* LockLocation entered on cur[c]: the base case test, the search of the
\* sublocation and the test of the current location under mu (lines 648-775)
LockWalk(c) ==
    /\ pc[c] = "lock_walk"
    /\ LET l == cur[c]
           path == req[c].PathString
       IN IF IsTarget(l, path)
          THEN \* line 650, the load of num_locks++
               /\ tmp_n' = [tmp_n EXCEPT ![c] = locations[l].num_locks]
               /\ pc' = [pc EXCEPT ![c] = "base_store"]
               /\ written' = NoResponse
               /\ UNCHANGED nxt
          ELSE LET sub == FindSub(l, Components(path)[idx[c] + 1])
               IN IF sub = 0
                  THEN \* no sublocation matches: *ret stays false, the handler
                       \* returns and the server answers 200 with no body
                       /\ pc' = [pc EXCEPT ![c] = "holding"]
                       /\ written' = Response(c, "200")
                       /\ UNCHANGED <<nxt, tmp_n>>
                  ELSE /\ ~mu
                       /\ nxt' = [nxt EXCEPT ![c] = sub]
                       /\ pc' = [pc EXCEPT ![c] =
                              IF Len(locations[l].locks) = 1
                                 /\ locations[l].locks[1].Exclusive
                              THEN "pre_wait" ELSE "pre_load_n"]
                       /\ written' = NoResponse
                       /\ UNCHANGED tmp_n
    /\ snap' = SnapAfter(c)
    /\ UNCHANGED <<locations, registry, access_counts, sent, mu, req, cur, idx,
                   qi, tmp_s, nreq, ahead>>

\* the loop of lines 749-756 leaves when the location has no lock
PreWait(c) ==
    /\ pc[c] = "pre_wait"
    /\ ~mu
    /\ Len(locations[cur[c]].locks) = 0
    /\ pc' = [pc EXCEPT ![c] = "pre_load_n"]
    /\ written' = NoResponse
    /\ snap' = SnapAfter(c)
    /\ UNCHANGED <<locations, registry, access_counts, sent, mu, req, cur, idx,
                   nxt, qi, tmp_n, tmp_s, nreq, ahead>>

\* currentLocation.num_locks++ (lines 760, 787): the load
PreLoadN(c) ==
    /\ pc[c] = "pre_load_n"
    /\ tmp_n' = [tmp_n EXCEPT ![c] = locations[cur[c]].num_locks]
    /\ pc' = [pc EXCEPT ![c] = "pre_store_n"]
    /\ written' = NoResponse
    /\ snap' = SnapAfter(c)
    /\ UNCHANGED <<locations, registry, access_counts, sent, mu, req, cur, idx,
                   nxt, qi, tmp_s, nreq, ahead>>

\* currentLocation.num_locks++ (lines 650, 760, 787): the store
StoreN(c) ==
    /\ pc[c] \in {"pre_store_n", "base_store"}
    /\ locations' = [locations EXCEPT ![cur[c]].num_locks = tmp_n[c] + 1]
    /\ pc' = [pc EXCEPT ![c] =
                 IF pc[c] = "pre_store_n" THEN "pre_index" ELSE "base_index"]
    /\ written' = NoResponse
    /\ snap' = SnapAfter(c)
    /\ UNCHANGED <<registry, access_counts, sent, mu, req, cur, idx, nxt, qi,
                   tmp_n, tmp_s, nreq, ahead>>

\* queue_index = currentLocation.num_locks (lines 651, 761, 788)
ReadIndex(c) ==
    /\ pc[c] \in {"pre_index", "base_index"}
    /\ qi' = [qi EXCEPT ![c] = locations[cur[c]].num_locks]
    /\ pc' = [pc EXCEPT ![c] =
                 IF pc[c] = "pre_index" THEN "pre_load_q" ELSE "base_enqueue"]
    /\ written' = NoResponse
    /\ snap' = SnapAfter(c)
    /\ UNCHANGED <<locations, registry, access_counts, sent, mu, req, cur, idx,
                   nxt, tmp_n, tmp_s, nreq, ahead>>

\* lock_queue = append(lock_queue, sl) (lines 764, 791): the load
PreLoadQueue(c) ==
    /\ pc[c] = "pre_load_q"
    /\ tmp_s' = [tmp_s EXCEPT ![c] = locations[cur[c]].lock_queue]
    /\ pc' = [pc EXCEPT ![c] = "pre_store_q"]
    /\ written' = NoResponse
    /\ snap' = SnapAfter(c)
    /\ UNCHANGED <<locations, registry, access_counts, sent, mu, req, cur, idx,
                   nxt, qi, tmp_n, nreq, ahead>>

\* lock_queue = append(lock_queue, sl) (lines 764, 791): the store
PreStoreQueue(c) ==
    /\ pc[c] = "pre_store_q"
    /\ locations' = [locations EXCEPT
                        ![cur[c]].lock_queue = Append(tmp_s[c], PrefixLockOf(c))]
    /\ tmp_s' = [tmp_s EXCEPT ![c] = <<>>]
    /\ pc' = [pc EXCEPT ![c] = "pre_load_l"]
    /\ written' = NoResponse
    /\ snap' = SnapAfter(c)
    /\ UNCHANGED <<registry, access_counts, sent, mu, req, cur, idx, nxt, qi,
                   tmp_n, nreq, ahead>>

\* locks = append(locks, sl) (lines 768, 795): the load
PreLoadLocks(c) ==
    /\ pc[c] = "pre_load_l"
    /\ tmp_s' = [tmp_s EXCEPT ![c] = locations[cur[c]].locks]
    /\ pc' = [pc EXCEPT ![c] = "pre_store_l"]
    /\ written' = NoResponse
    /\ snap' = SnapAfter(c)
    /\ UNCHANGED <<locations, registry, access_counts, sent, mu, req, cur, idx,
                   nxt, qi, tmp_n, nreq, ahead>>

\* locks = append(locks, sl) (lines 768, 795): the store, then the recursive
\* call sub.LockLocation(lock, idx+1, ret)
PreStoreLocks(c) ==
    /\ pc[c] = "pre_store_l"
    /\ locations' = [locations EXCEPT
                        ![cur[c]].locks = Append(tmp_s[c], PrefixLockOf(c))]
    /\ tmp_s' = [tmp_s EXCEPT ![c] = <<>>]
    /\ cur' = [cur EXCEPT ![c] = nxt[c]]
    /\ idx' = [idx EXCEPT ![c] = idx[c] + 1]
    /\ pc' = [pc EXCEPT ![c] = "lock_walk"]
    /\ written' = NoResponse
    /\ snap' = SnapAfter(c)
    /\ UNCHANGED <<registry, access_counts, sent, mu, req, nxt, qi, tmp_n,
                   nreq, ahead>>

\* the lock is appended to locks, *ret = true, the handler answers 200
Granted(c, locs) ==
    /\ locations' = [locs EXCEPT
                        ![cur[c]].locks = Append(locs[cur[c]].locks, LockOf(c))]
    /\ pc' = [pc EXCEPT ![c] = "holding"]
    /\ written' = Response(c, "200")

\* the section of lines 654-731 up to the wait loop, under mu
BaseEnqueue(c) ==
    /\ pc[c] = "base_enqueue"
    /\ ~mu
    /\ LET l == cur[c]
           loc == locations[l]
           waiting == IF req[c].Exclusive
                      THEN Append(loc.exclusive_locks_waiting, qi[c])
                      ELSE loc.exclusive_locks_waiting
           queued == [locations EXCEPT
                         ![l].lock_queue = Append(loc.lock_queue, LockOf(c)),
                         ![l].exclusive_locks_waiting = waiting]
       IN IF /\ ~req[c].Exclusive
             /\ Len(waiting) < 1
             /\ Len(loc.locks) >= 1
             /\ ~loc.locks[1].Exclusive
          THEN Granted(c, queued)
          ELSE IF Len(loc.locks) > 0
          THEN /\ locations' = queued
               /\ pc' = [pc EXCEPT ![c] = "base_spin"]
               /\ written' = NoResponse
          ELSE Granted(c, queued)
    /\ ahead' = [ahead EXCEPT ![c] = EnqueuedOn(cur[c]) \ {c}]
    /\ snap' = SnapAfter(c)
    /\ UNCHANGED <<registry, access_counts, sent, mu, req, cur, idx, nxt, qi,
                   tmp_n, tmp_s, nreq>>

\* one pass of the loop of lines 677-723 appends the lock: the condition
SpinCanGrant(c) ==
    LET loc == locations[cur[c]]
        waiting == loc.exclusive_locks_waiting
        topOfQueue == IF Len(loc.lock_queue) > 0
                      THEN loc.lock_queue[1] ELSE LockOf(c)
    IN IF Len(loc.locks) = 0
       THEN /\ ~(topOfQueue.Exclusive /\ qi[c] # topOfQueue.queue_index)
            /\ ~(/\ ~topOfQueue.Exclusive
                 /\ Len(waiting) > 0
                 /\ qi[c] >= waiting[1])
       ELSE /\ ~loc.locks[1].Exclusive
            /\ ~(Len(waiting) > 0 /\ qi[c] >= waiting[1])

\* the pass of the wait loop that appends the lock, under mu; the passes
\* that change nothing are stuttering steps
BaseSpin(c) ==
    /\ pc[c] = "base_spin"
    /\ ~mu
    /\ SpinCanGrant(c)
    /\ Granted(c, locations)
    /\ snap' = SnapAfter(c)
    /\ UNCHANGED <<registry, access_counts, sent, mu, req, cur, idx, nxt, qi,
                   tmp_n, tmp_s, nreq, ahead>>

----------------------------------------------------------------------------
(* UnlockLocation *)

\* Location.Pop: the location after the call; it panics when
\* exclusive_locks_waiting[1:] is taken of an empty slice
Pop(loc, unlock) ==
    LET here == [loc |-> loc, panic |-> FALSE] IN
    IF Len(loc.lock_queue) = 0 THEN here
    ELSE LET currentLock == loc.locks[1]
             topOfQueue == loc.lock_queue[1]
             popped == [loc EXCEPT !.lock_queue = Tail(loc.lock_queue)]
         IN IF ~unlock.Exclusive /\ ~currentLock.Exclusive /\ ~topOfQueue.Exclusive
            THEN [loc |-> popped, panic |-> FALSE]
            ELSE IF unlock.Exclusive /\ topOfQueue.Exclusive /\ currentLock.Exclusive
            THEN IF Len(loc.exclusive_locks_waiting) = 0
                 THEN [loc |-> popped, panic |-> TRUE]
                 ELSE [loc |-> [popped EXCEPT !.exclusive_locks_waiting =
                                    Tail(loc.exclusive_locks_waiting)],
                       panic |-> FALSE]
            ELSE here

\* Pop, then locks = locks[1:]
PopAndRelease(loc, unlock) ==
    LET p == Pop(loc, unlock)
    IN IF p.panic THEN p
       ELSE [loc |-> [p.loc EXCEPT !.locks = Tail(p.loc.locks)], panic |-> FALSE]

\* HandleServiceCommand, r.RequestURI == UNLOCK, up to the call of
\* UnlockLocation; a client unlocks what it was granted
HandleUnlock(c) ==
    /\ pc[c] = "holding"
    /\ LET path == req[c].PathString
       IN IF ~IsPathValid(path) \/ (~PathExists(locations, path) /\ path # P_root)
          THEN /\ written' = Response(c, "IllegalArgumentException")
               /\ Return(c)
               /\ ahead' = AheadWithout(c)
          ELSE /\ written' = NoResponse
               /\ pc' = [pc EXCEPT ![c] = "unlock_walk"]
               /\ cur' = [cur EXCEPT ![c] = Root]
               /\ idx' = [idx EXCEPT ![c] = 0]
               /\ UNCHANGED <<req, nxt, qi, tmp_n, ahead>>
    /\ snap' = SnapAfter(c)
    /\ UNCHANGED <<locations, registry, access_counts, sent, mu, tmp_s, nreq>>

\* the handler after UnlockLocation returned with *ret = ret (lines 1626-1645)
UnlockDone(c, ret) ==
    /\ written' = Response(c, "200")
    /\ Return(c)
    /\ ahead' = AheadWithout(c)
    /\ IF ret
       THEN LET inc == Increment_Access_Count(access_counts, registry,
                                              req[c].PathString)
                del == IF req[c].Exclusive
                       THEN SendDelete(registry, req[c].PathString, FALSE)
                       ELSE <<>>
            IN /\ access_counts' = inc[1]
               /\ sent' = sent \o inc[2] \o del
       ELSE UNCHANGED <<access_counts, sent>>

\* a panic under mu: the server recovers it and closes the connection, mu
\* stays locked
Panicked(c) ==
    /\ mu' = TRUE
    /\ written' = Response(c, "panic")
    /\ Return(c)
    /\ ahead' = AheadWithout(c)
    /\ UNCHANGED <<access_counts, sent>>

\* UnlockLocation entered on cur[c] (lines 814-879)
UnlockWalk(c) ==
    /\ pc[c] = "unlock_walk"
    /\ ~mu
    /\ LET l == cur[c]
           loc == locations[l]
           unlock == req[c]
       IN IF IsTarget(l, unlock.PathString)
          THEN IF \/ /\ ~unlock.Exclusive
                     /\ Len(loc.locks) >= 1
                     /\ ~loc.locks[1].Exclusive
                  \/ /\ unlock.Exclusive
                     /\ Len(loc.locks) = 1
                     /\ loc.locks[1].Exclusive
               THEN LET p == PopAndRelease(loc, unlock)
                    IN /\ locations' = [locations EXCEPT ![l] = p.loc]
                       /\ IF p.panic
                          THEN Panicked(c)
                          ELSE UnlockDone(c, TRUE) /\ UNCHANGED mu
               ELSE /\ UnlockDone(c, FALSE)
                    /\ UNCHANGED <<locations, mu>>
          ELSE LET sub == FindSub(l, Components(unlock.PathString)[idx[c] + 1])
               IN IF sub = 0
                  THEN /\ UnlockDone(c, FALSE)
                       /\ UNCHANGED <<locations, mu>>
                  ELSE /\ IF Len(loc.locks) >= 1 /\ ~loc.locks[1].Exclusive
                          THEN locations' = [locations EXCEPT
                                   ![l] = PopAndRelease(loc, loc.locks[1]).loc]
                          ELSE UNCHANGED locations
                       /\ cur' = [cur EXCEPT ![c] = sub]
                       /\ idx' = [idx EXCEPT ![c] = idx[c] + 1]
                       /\ written' = NoResponse
                       /\ UNCHANGED <<access_counts, sent, mu, pc, req, nxt, qi,
                                      tmp_n, ahead>>
    /\ snap' = SnapAfter(c)
    /\ UNCHANGED <<registry, tmp_s, nreq>>

----------------------------------------------------------------------------
(* Directory tree commands *)

\* strings.TrimLeft(s, "/")
RECURSIVE TrimLeft(_)
TrimLeft(s) == IF s # <<>> /\ Head(s) = "/" THEN TrimLeft(Tail(s)) ELSE s

\* strings.Contains(s, sub)
Contains(s, sub) ==
    \E i \in 0..(Len(s) - Len(sub)) : SubSeq(s, i + 1, i + Len(sub)) = sub

\* ContainsX(parentDirectory, x)
ContainsX(parentDirectory, x) ==
    \E k \in 1..Len(parentDirectory) : Contains(parentDirectory[k], x)

S_file == <<"f", "i", "l", "e">>

S_directory == <<"d", "i", "r", "e", "c", "t", "o", "r", "y">>

\* the first sublocation of l named name in the tree locs, 0 when none
SubNamed(locs, l, name) ==
    LET subs == locs[l].subLocations
        hits == {k \in 1..Len(subs) : locs[subs[k]].name = name}
    IN IF hits = {} THEN 0
       ELSE subs[CHOOSE k \in hits : \A j \in hits : k <= j]

\* subLocations = append(subLocations, &Location{name: name})
AddSub(locs, l, name) ==
    Append([locs EXCEPT ![l].subLocations = Append(@, Len(locs) + 1)],
           Location(name, <<>>))

\* Location.AppendNewLocation: the tree after the call on location l
RECURSIVE AppendNewLocation(_, _, _)
AppendNewLocation(locs, l, locationNames) ==
    IF Len(locationNames) = 1 THEN AddSub(locs, l, locationNames[1])
    ELSE LET midwayLocation == locationNames[1]
             otherLocations == Tail(locationNames)
             sub == SubNamed(locs, l, midwayLocation)
         IN IF locs[l].name = midwayLocation
            THEN AppendNewLocation(locs, l, otherLocations)
            ELSE IF sub # 0
            THEN AppendNewLocation(locs, sub, otherLocations)
            ELSE AppendNewLocation(AddSub(locs, l, midwayLocation),
                                   Len(locs) + 1, otherLocations)

\* Location.CheckNewPath: [ok |-> the result, locs |-> the tree after the call]
RECURSIVE CheckNewPath(_, _, _, _)
CheckNewPath(locs, l, locationNames, idx0) ==
    IF Len(locs[l].subLocations) = 0
    THEN [ok |-> TRUE, locs |-> AppendNewLocation(locs, l, locationNames)]
    ELSE IF idx0 = Len(locationNames) - 1
    THEN LET finalLocation == locationNames[Len(locationNames)]
         IN IF SubNamed(locs, l, finalLocation) # 0
            THEN [ok |-> FALSE, locs |-> locs]
            ELSE [ok |-> TRUE, locs |-> AddSub(locs, l, finalLocation)]
    ELSE LET sub == SubNamed(locs, l, locationNames[idx0 + 1])
         IN IF sub # 0
            THEN CheckNewPath(locs, sub, locationNames, idx0 + 1)
            ELSE [ok |-> TRUE,
                  locs |-> AppendNewLocation(locs, l,
                               SubSeq(locationNames, idx0 + 1, Len(locationNames)))]

\* root.LocationExists(locationNames, &ret) with ret false before the call
Exists(locs, locationNames) ==
    LocationExists(locs, Root, locationNames, Len(locationNames), FALSE)[1]

\* Location.GetContentsAt; arr is the backing array of locationNames, n its
\* length, ret the value of *ret; the result is <<*ret, backing array>>
RECURSIVE GetContentsAt(_, _, _, _, _)
GetContentsAt(locs, l, arr, n, ret) ==
    LET subs == locs[l].subLocations
        Names(q) == [k \in 1..Len(locs[q].subLocations) |->
                        locs[locs[q].subLocations[k]].name]
    IN IF n = 1
       THEN IF locs[l].name = <<"/">> /\ arr[1] = locs[l].name
            THEN <<ret \o Names(l), arr>>
            ELSE LET Collect[k \in 0..Len(subs)] ==
                         IF k = 0 THEN ret
                         ELSE IF locs[subs[k]].name = arr[1]
                         THEN Collect[k-1] \o Names(subs[k])
                         ELSE Collect[k-1]
                 IN <<Collect[Len(subs)], arr>>
       ELSE LET Step(k, st) ==
                    IF locs[subs[k]].name = st[2][1]
                    THEN GetContentsAt(locs, subs[k], ShiftLeft(st[2], n), n - 1, st[1])
                    ELSE st
                Loop[k \in 0..Len(subs)] ==
                    IF k = 0 THEN <<ret, arr>> ELSE Step(k, Loop[k-1])
            IN Loop[Len(subs)]

PathRequest(path) == [PathString |-> path]

\* a response written to the client c
Answer(c, request, status) == [c |-> c, req |-> request, status |-> status]

\* the parent test of /create_directory and /create_file: the parent is missing
\* or one of its components contains "file"
ParentRefused(locs, locationNames) ==
    /\ Len(locationNames) > 1
    /\ LET parentDirectory == SubSeq(locationNames, 1, Len(locationNames) - 1)
       IN ~Exists(locs, parentDirectory) \/ ContainsX(parentDirectory, S_file)

\* the response of /is_directory in the tree locs
IsDirectoryAnswer(locs, path) ==
    LET locationNames == Split(TrimLeft(path))
    IN IF ~IsPathValid(path) THEN "IllegalArgumentException"
       ELSE IF Exists(locs, locationNames) \/ path = P_root
       THEN IF Contains(locationNames[Len(locationNames)], S_file)
            THEN "success:false" ELSE "success:true"
       ELSE "FileNotFoundException"

\* the response of /list in the tree locs: [status, files]
ListAnswer(locs, path) ==
    LET locationNames == Split(TrimLeft(path))
        found == LocationExists(locs, Root, locationNames, Len(locationNames), FALSE)
    IN IF ~IsPathValid(path)
       THEN [status |-> "IllegalArgumentException", files |-> <<>>]
       ELSE IF found[1] \/ path = P_root
       THEN IF ~Contains(found[2][Len(locationNames)], S_directory) /\ path # P_root
            THEN [status |-> "FileNotFoundException", files |-> <<>>]
            ELSE [status |-> "files",
                  files |-> IF path = P_root
                            THEN GetContentsAt(locs, Root, <<P_root>>, 1, <<>>)[1]
                            ELSE GetContentsAt(locs, Root, found[2],
                                               Len(locationNames), <<>>)[1]]
       ELSE [status |-> "FileNotFoundException", files |-> <<>>]

\* the first registered server that lists the file, 0 when none does
HostOf(reg, file) ==
    LET hits == {i \in 1..Len(reg) :
                    \E k \in 1..Len(reg[i].Files) : reg[i].Files[k] = file}
    IN IF hits = {} THEN 0 ELSE CHOOSE i \in hits : \A j \in hits : i <= j

\* the response of /get_storage: [status, server_ip, server_port]; when no
\* registered server lists the file the handler falls through to the end of
\* HandleServiceCommand, which answers 400 Unknown Command
GetStorageAnswer(locs, reg, path) ==
    LET locationNames == Tail(Split(path))
        none == [status |-> "none", server_ip |-> "", server_port |-> 0]
    IN IF ~IsPathValid(path)
       THEN [none EXCEPT !.status = "IllegalArgumentException"]
       ELSE IF \/ ~Exists(locs, locationNames)
               \/ Contains(locationNames[Len(locationNames)], S_directory)
       THEN [none EXCEPT !.status = "FileNotFoundException"]
       ELSE IF HostOf(reg, path) = 0
       THEN [none EXCEPT !.status = "400 Unknown Command"]
       ELSE [status |-> "StorageInfo",
             server_ip |-> reg[HostOf(reg, path)].StorageIP,
             server_port |-> reg[HostOf(reg, path)].ClientPort]

\* what a directory tree command leaves alone
goroutines == <<mu, pc, req, cur, idx, nxt, qi, tmp_n, tmp_s, nreq, ahead,
                access_counts>>

\* HandleServiceCommand, r.RequestURI == IS_VALID_PATH
IsValidPath(c, path) ==
    /\ pc[c] = "idle"
    /\ written' = Answer(c, PathRequest(path),
                         IF IsPathValid(path) THEN "success:true" ELSE "success:false")
    /\ snap' = NoSnap
    /\ UNCHANGED <<locations, registry, sent, goroutines>>

\* HandleServiceCommand, r.RequestURI == IS_DIRECTORY
IsDirectory(c, path) ==
    /\ pc[c] = "idle"
    /\ written' = Answer(c, PathRequest(path), IsDirectoryAnswer(locations, path))
    /\ snap' = NoSnap
    /\ UNCHANGED <<locations, registry, sent, goroutines>>

\* HandleServiceCommand, r.RequestURI == LIST
List(c, path) ==
    /\ pc[c] = "idle"
    /\ LET a == ListAnswer(locations, path)
       IN written' = [c |-> c, req |-> PathRequest(path), status |-> a.status,
                      files |-> a.files]
    /\ snap' = NoSnap
    /\ UNCHANGED <<locations, registry, sent, goroutines>>

\* HandleServiceCommand, r.RequestURI == GET_STORAGE
GetStorage(c, path) ==
    /\ pc[c] = "idle"
    /\ LET a == GetStorageAnswer(locations, registry, path)
       IN written' = [c |-> c, req |-> PathRequest(path), status |-> a.status,
                      server_ip |-> a.server_ip, server_port |-> a.server_port]
    /\ snap' = NoSnap
    /\ UNCHANGED <<locations, registry, sent, goroutines>>

\* NamingServer.CreateFileOnStorage: the request it sends
CreateFileOnStorage(reg, path) ==
    IF Len(reg) > 0
    THEN <<[cmd |-> "/storage_create", to |-> reg[1].CommandPort, path |-> path]>>
    ELSE <<>>

\* HandleServiceCommand, r.RequestURI == CREATE_DIRECTORY (file = FALSE) and
\* r.RequestURI == CREATE_FILE (file = TRUE)
Create(c, path, file) ==
    /\ pc[c] = "idle"
    /\ LET locationNames == Split(TrimLeft(path))
           isRoot == Len(locationNames) <= 1 /\ path = P_root
           created == CheckNewPath(locations, Root, locationNames, 0)
           request == [PathString |-> path, file |-> file]
       IN IF ~IsPathValid(path)
          THEN /\ written' = Answer(c, request, "IllegalArgumentException")
               /\ UNCHANGED <<locations, sent>>
          ELSE IF ParentRefused(locations, locationNames)
          THEN /\ written' = Answer(c, request, "FileNotFoundException")
               /\ UNCHANGED <<locations, sent>>
          ELSE IF Exists(locations, locationNames) \/ isRoot
          THEN /\ written' = Answer(c, request, "success:false")
               /\ UNCHANGED <<locations, sent>>
          ELSE /\ Len(created.locs) <= MaxLocations
               /\ locations' = created.locs
               /\ sent' = IF file /\ created.ok
                          THEN sent \o CreateFileOnStorage(registry, path)
                          ELSE sent
               /\ Len(sent') <= MaxSent
               /\ written' = Answer(c, request,
                                IF created.ok THEN "success:true" ELSE "success:false")
    /\ snap' = NoSnap
    /\ UNCHANGED <<registry, goroutines>>

\* HandleServiceCommand, r.RequestURI == DELETE, while the storage servers at
\* the command ports down cannot be reached
DeleteUnreachable(c, path, down) ==
    /\ pc[c] = "idle"
    /\ IF ~IsPathValid(path)
       THEN /\ written' = Answer(c, PathRequest(path), "IllegalArgumentException")
            /\ UNCHANGED sent
       ELSE IF ~PathExists(locations, path) /\ path # P_root
       THEN /\ written' = Answer(c, PathRequest(path), "FileNotFoundException")
            /\ UNCHANGED sent
       ELSE /\ sent' = sent \o SendDeleteReaching(registry, path, TRUE, down)
            /\ Len(sent') <= MaxSent
            /\ written' = Answer(c, PathRequest(path), "success:true")
    /\ snap' = NoSnap
    /\ UNCHANGED <<locations, registry, goroutines>>

\* Location.CheckNewPath up to its call of AppendNewLocation: whether the path
\* is new, the location the call is made on and the index of the first of the
\* names it is given
RECURSIVE NewPathPlan(_, _, _, _)
NewPathPlan(locs, l, locationNames, idx0) ==
    IF Len(locs[l].subLocations) = 0
    THEN [ok |-> TRUE, at |-> l, from |-> 1]
    ELSE IF idx0 = Len(locationNames) - 1
    THEN IF SubNamed(locs, l, locationNames[Len(locationNames)]) # 0
         THEN [ok |-> FALSE, at |-> l, from |-> 0]
         ELSE [ok |-> TRUE, at |-> l, from |-> Len(locationNames)]
    ELSE LET sub == SubNamed(locs, l, locationNames[idx0 + 1])
         IN IF sub # 0
            THEN NewPathPlan(locs, sub, locationNames, idx0 + 1)
            ELSE [ok |-> TRUE, at |-> l, from |-> idx0 + 1]

\* /create_directory and /create_file served by a goroutine of its own, which
\* takes no mutex: the tests of the handler up to the call of CheckNewPath
CreateBegin(c, path, file) ==
    /\ pc[c] = "idle"
    /\ LET locationNames == Split(TrimLeft(path))
           isRoot == Len(locationNames) <= 1 /\ path = P_root
           request == [PathString |-> path, file |-> file]
       IN IF ~IsPathValid(path)
          THEN /\ written' = Answer(c, request, "IllegalArgumentException")
               /\ UNCHANGED <<pc, req>>
          ELSE IF ParentRefused(locations, locationNames)
          THEN /\ written' = Answer(c, request, "FileNotFoundException")
               /\ UNCHANGED <<pc, req>>
          ELSE IF Exists(locations, locationNames) \/ isRoot
          THEN /\ written' = Answer(c, request, "success:false")
               /\ UNCHANGED <<pc, req>>
          ELSE /\ written' = NoResponse
               /\ pc' = [pc EXCEPT ![c] = "create_check"]
               /\ req' = [req EXCEPT ![c] = request]
    /\ snap' = NoSnap
    /\ UNCHANGED <<locations, registry, access_counts, sent, mu, cur, idx, nxt,
                   qi, tmp_n, tmp_s, nreq, ahead>>

\* CheckNewPath: the search for a conflict (lines 461-507)
CreateCheck(c) ==
    /\ pc[c] = "create_check"
    /\ LET plan == NewPathPlan(locations, Root,
                               Split(TrimLeft(req[c].PathString)), 0)
       IN IF plan.ok
          THEN /\ pc' = [pc EXCEPT ![c] = "create_append"]
               /\ cur' = [cur EXCEPT ![c] = plan.at]
               /\ idx' = [idx EXCEPT ![c] = plan.from]
               /\ written' = NoResponse
               /\ UNCHANGED <<req, nxt, qi, tmp_n>>
          ELSE /\ written' = Answer(c, req[c], "success:false")
               /\ Return(c)
    /\ snap' = NoSnap
    /\ UNCHANGED <<locations, registry, access_counts, sent, mu, tmp_s, nreq,
                   ahead>>

\* CheckNewPath: the call of AppendNewLocation (lines 462, 488, 514), then
\* the rest of the handler
CreateAppend(c) ==
    /\ pc[c] = "create_append"
    /\ LET locationNames == Split(TrimLeft(req[c].PathString))
           names == SubSeq(locationNames, idx[c], Len(locationNames))
       IN locations' = AppendNewLocation(locations, cur[c], names)
    /\ Len(locations') <= MaxLocations
    /\ sent' = IF req[c].file
               THEN sent \o CreateFileOnStorage(registry, req[c].PathString)
               ELSE sent
    /\ Len(sent') <= MaxSent
    /\ written' = Answer(c, req[c], "success:true")
    /\ Return(c)
    /\ snap' = NoSnap
    /\ UNCHANGED <<registry, access_counts, mu, tmp_s, nreq, ahead>>

\* HandleServiceCommand, r.RequestURI == DELETE
Delete(c, path) ==
    /\ pc[c] = "idle"
    /\ IF ~IsPathValid(path)
       THEN /\ written' = Answer(c, PathRequest(path), "IllegalArgumentException")
            /\ UNCHANGED sent
       ELSE IF ~PathExists(locations, path) /\ path # P_root
       THEN /\ written' = Answer(c, PathRequest(path), "FileNotFoundException")
            /\ UNCHANGED sent
       ELSE /\ Len(sent) + Len(SendDelete(registry, path, TRUE)) <= MaxSent
            /\ sent' = sent \o SendDelete(registry, path, TRUE)
            /\ written' = Answer(c, PathRequest(path), "success:true")
    /\ snap' = NoSnap
    /\ UNCHANGED <<locations, registry, goroutines>>

\* the loop of HandleRegistration over the files of the registering server:
\* [locs |-> the tree after it, del |-> filesToDelete]
RECURSIVE RegisterFiles(_, _)
RegisterFiles(locs, files) ==
    IF files = <<>> THEN [locs |-> locs, del |-> <<>>]
    ELSE LET filePath == TrimLeft(Head(files))
             r == CheckNewPath(locs, Root, Split(filePath), 0)
             rest == RegisterFiles(r.locs, Tail(files))
         IN [locs |-> rest.locs,
             del |-> IF r.ok THEN rest.del ELSE <<<<"/">> \o filePath>> \o rest.del]

\* the test of HandleRegistration with the command port left out
ClientPortRegistered(reg, storage_server) ==
    \E i \in 1..Len(reg) : reg[i].ClientPort = storage_server.ClientPort

\* the test of HandleRegistration for a storage server already registered
AlreadyRegistered(reg, storage_server) ==
    \E i \in 1..Len(reg) :
        \/ reg[i].ClientPort = storage_server.ClientPort
        \/ reg[i].CommandPort = storage_server.CommandPort

\* HandleRegistration, r.RequestURI == REGISTER
Register(storage_server) ==
    /\ IF AlreadyRegistered(registry, storage_server)
       THEN /\ written' = Answer("storage", storage_server, "IllegalStateException")
            /\ UNCHANGED <<locations, registry>>
       ELSE LET r == RegisterFiles(locations, storage_server.Files)
            IN /\ Len(registry) < MaxServers
               /\ Len(r.locs) <= MaxLocations
               /\ locations' = r.locs
               /\ registry' = Append(registry, storage_server)
               /\ written' = [c |-> "storage", req |-> storage_server,
                              status |-> "registered", files |-> r.del]
    /\ snap' = NoSnap
    /\ UNCHANGED <<sent, goroutines>>

\* HandleServiceCommand, r.RequestURI == UNLOCK, up to the call of
\* UnlockLocation, for a request that follows no grant
ReceiveUnlock(c, path, exclusive) ==
    /\ pc[c] = "idle"
    /\ LET unlock == [PathString |-> path, Exclusive |-> exclusive]
       IN IF ~IsPathValid(path) \/ (~PathExists(locations, path) /\ path # P_root)
          THEN /\ written' = Answer(c, unlock, "IllegalArgumentException")
               /\ snap' = NoSnap
               /\ UNCHANGED <<pc, req, cur, idx>>
          ELSE /\ written' = NoResponse
               /\ req' = [req EXCEPT ![c] = unlock]
               /\ pc' = [pc EXCEPT ![c] = "unlock_walk"]
               /\ cur' = [cur EXCEPT ![c] = Root]
               /\ idx' = [idx EXCEPT ![c] = 0]
               /\ snap' = [c |-> c, pre |-> LockState(locations)]
    /\ UNCHANGED <<locations, registry, access_counts, sent, mu, nxt, qi, tmp_n,
                   tmp_s, nreq, ahead>>

----------------------------------------------------------------------------
(* Specifications *)

\* a step of the goroutine serving a request of c
Serve(c) ==
    \/ LockWalk(c)
    \/ PreWait(c)
    \/ PreLoadN(c)
    \/ StoreN(c)
    \/ ReadIndex(c)
    \/ PreLoadQueue(c)
    \/ PreStoreQueue(c)
    \/ PreLoadLocks(c)
    \/ PreStoreLocks(c)
    \/ BaseEnqueue(c)
    \/ BaseSpin(c)
    \/ UnlockWalk(c)

\* three clients lock and unlock the root and /a/a
Next ==
    \/ \E c \in Clients : \E path \in Menu(c), exclusive \in BOOLEAN :
           HandleLock(c, path, exclusive)
    \/ \E c \in Clients : HandleUnlock(c)
    \/ \E c \in Clients : Serve(c)

Spec == Init /\ [][Next]_vars

\* two clients; c1 also asks for two missing paths and for an invalid one
PairClients == {"c1", "c3"}

PairMenu(c) ==
    IF c = "c1" THEN {P_root, P_b, P_ab, P_rel} ELSE {P_root, P_aa}

NextPair ==
    \/ \E c \in PairClients : \E path \in PairMenu(c), exclusive \in BOOLEAN :
           HandleLock(c, path, exclusive)
    \/ \E c \in PairClients : HandleUnlock(c)
    \/ \E c \in PairClients : Serve(c)

SpecPair == Init /\ [][NextPair]_vars

\* two clients under fair scheduling: every goroutine that can take a step
\* eventually takes it, and a client that was granted a lock eventually
\* sends the matching /unlock
FairClients == {"c1", "c3"}

NextFair ==
    \/ \E c \in FairClients : \E path \in Menu(c), exclusive \in BOOLEAN :
           HandleLock(c, path, exclusive)
    \/ \E c \in FairClients : HandleUnlock(c)
    \/ \E c \in FairClients : Serve(c)

FairSpec ==
    /\ Init
    /\ [][NextFair]_vars
    /\ \A c \in FairClients : WF_vars(Serve(c)) /\ WF_vars(HandleUnlock(c))

\* one client and the storage servers use the directory tree commands on a
\* naming server that has just started
P_d == <<"/", "d">>

P_de == <<"/", "d", "/", "e">>

P_deg == <<"/", "d", "/", "e", "/", "g">>

P_file == <<"/", "f", "i", "l", "e">>

P_filex == <<"/", "f", "i", "l", "e", "/", "x">>

OpsClients == {"c1"}

OpsPaths == {P_root, P_d, P_de, P_deg, P_file, P_filex}

ReadPaths == {P_d, P_deg, P_file}

DeletePaths == {P_root, P_d, P_file}

StorageServer(client_port, command_port, files) ==
    [StorageIP |-> "127.0.0.1", ClientPort |-> client_port,
     CommandPort |-> command_port, Files |-> files]

StorageServers ==
    {StorageServer(1, 2, <<>>), StorageServer(1, 4, <<P_file>>),
     StorageServer(3, 2, <<P_file, P_deg>>), StorageServer(3, 4, <<P_filex>>)}

InitOps ==
    /\ locations = <<Location(<<"/">>, <<>>)>>
    /\ registry = <<>>
    /\ access_counts = << >>
    /\ sent = <<>>
    /\ mu = FALSE
    /\ pc = [c \in Clients |-> "idle"]
    /\ req = [c \in Clients |-> NoLock]
    /\ cur = [c \in Clients |-> 0]
    /\ idx = [c \in Clients |-> 0]
    /\ nxt = [c \in Clients |-> 0]
    /\ qi = [c \in Clients |-> 0]
    /\ tmp_n = [c \in Clients |-> 0]
    /\ tmp_s = [c \in Clients |-> <<>>]
    /\ written = NoResponse
    /\ nreq = 0
    /\ ahead = [c \in Clients |-> {}]
    /\ snap = NoSnap

NextOps ==
    \/ \E c \in OpsClients, path \in OpsPaths, file \in BOOLEAN : Create(c, path, file)
    \/ \E c \in OpsClients, path \in ReadPaths : IsDirectory(c, path)
    \/ \E c \in OpsClients, path \in ReadPaths : List(c, path)
    \/ \E c \in OpsClients, path \in ReadPaths : GetStorage(c, path)
    \/ \E c \in OpsClients, path \in DeletePaths : Delete(c, path)
    \/ \E storage_server \in StorageServers : Register(storage_server)
    \/ \E c \in OpsClients, path \in DeletePaths, exclusive \in BOOLEAN :
           ReceiveUnlock(c, path, exclusive)
    \/ \E c \in OpsClients : UnlockWalk(c)

SpecOps == InitOps /\ [][NextOps]_vars

\* one client sends every string of up to MaxPathLen characters to
\* /is_valid_path, and to every command that takes a path five strings that
\* are not valid paths (the empty string, two without a leading "/", two with
\* a colon) and three valid paths; /lock is sent the five only
Alphabet == {"/", ":", "a"}

Strings == UNION {[1..n -> Alphabet] : n \in 0..MaxPathLen}

Rejected == {<<>>, P_rel, <<":">>, <<"/", ":">>, <<"a", "/">>}

PathMenu == Rejected \cup {P_root, P_b, P_ab}

NextPaths ==
    \/ \E c \in OpsClients, path \in Strings : IsValidPath(c, path)
    \/ \E c \in OpsClients, path \in PathMenu : IsDirectory(c, path)
    \/ \E c \in OpsClients, path \in PathMenu : List(c, path)
    \/ \E c \in OpsClients, path \in PathMenu : GetStorage(c, path)
    \/ \E c \in OpsClients, path \in PathMenu, file \in BOOLEAN :
           Create(c, path, file)
    \/ \E c \in OpsClients, path \in PathMenu : Delete(c, path)
    \/ \E c \in OpsClients, path \in Rejected, exclusive \in BOOLEAN :
           HandleLock(c, path, exclusive)
    \/ \E c \in OpsClients, path \in PathMenu, exclusive \in BOOLEAN :
           ReceiveUnlock(c, path, exclusive)
    \/ \E c \in OpsClients : UnlockWalk(c)

SpecPaths == Init /\ [][NextPaths]_vars

\* two clients read the file /f, which the first of two registered storage
\* servers reported: shared /lock and /unlock pairs only
P_f == <<"/", "f">>

ReadClients == {"c1", "c2"}

InitReads ==
    /\ locations = <<Location(<<"/">>, <<2>>), Location(<<"f">>, <<>>)>>
    /\ registry = <<StorageServer(1, 2, <<P_f>>), StorageServer(3, 4, <<>>)>>
    /\ access_counts = << >>
    /\ sent = <<>>
    /\ mu = FALSE
    /\ pc = [c \in Clients |-> "idle"]
    /\ req = [c \in Clients |-> NoLock]
    /\ cur = [c \in Clients |-> 0]
    /\ idx = [c \in Clients |-> 0]
    /\ nxt = [c \in Clients |-> 0]
    /\ qi = [c \in Clients |-> 0]
    /\ tmp_n = [c \in Clients |-> 0]
    /\ tmp_s = [c \in Clients |-> <<>>]
    /\ written = NoResponse
    /\ nreq = 0
    /\ ahead = [c \in Clients |-> {}]
    /\ snap = NoSnap

\* a step of the goroutine serving a request of c; a shared request finds no
\* exclusive holder, so the wait loops of LockLocation are not entered
ServeRead(c) ==
    \/ LockWalk(c)
    \/ PreLoadN(c)
    \/ StoreN(c)
    \/ ReadIndex(c)
    \/ PreLoadQueue(c)
    \/ PreStoreQueue(c)
    \/ PreLoadLocks(c)
    \/ PreStoreLocks(c)
    \/ BaseEnqueue(c)
    \/ UnlockWalk(c)

NextReads ==
    \/ HandleLockWithin("c1", P_f, FALSE, MaxReads)
    \/ nreq >= SoloReads /\ HandleLockWithin("c2", P_f, FALSE, MaxReads)
    \/ \E c \in ReadClients : HandleUnlock(c)
    \/ \E c \in ReadClients : ServeRead(c)

SpecReads == InitReads /\ [][NextReads]_vars

\* c1 locks and unlocks the file /file, which two registered storage servers
\* reported, the first of them first, and c3 locks and unlocks the root
\* two storage servers register with the same file /f, in either order, and
\* one client reads the file
SharedServers == {StorageServer(1, 2, <<P_f>>), StorageServer(3, 4, <<P_f>>)}

NextShared ==
    \/ \E storage_server \in SharedServers : Register(storage_server)
    \/ HandleLockWithin("c1", P_f, FALSE, MaxReads)
    \/ HandleUnlock("c1")
    \/ ServeRead("c1")

SpecShared == InitOps /\ [][NextShared]_vars

\* c1 locks and unlocks the root and /a/a, c3 locks and unlocks the root and
\* also sends /unlock requests for /a/a that follow no grant
StrayClients == {"c1", "c3"}

StrayMenu(c) == IF c = "c1" THEN {P_root, P_aa} ELSE {P_root}

NextStray ==
    \/ \E c \in StrayClients : \E path \in StrayMenu(c), exclusive \in BOOLEAN :
           HandleLock(c, path, exclusive)
    \/ \E c \in StrayClients : HandleUnlock(c)
    \/ \E c \in StrayClients : Serve(c)
    \/ \E exclusive \in BOOLEAN : ReceiveUnlock("c3", P_aa, exclusive)

SpecStray == Init /\ [][NextStray]_vars

\* two clients create /d and /d/e at the same time while a storage server
\* registers
RaceClients == {"c1", "c2"}

RacePaths == {P_d, P_de}

RaceServers == {StorageServer(1, 2, <<P_de>>)}

NextRace ==
    \/ \E c \in RaceClients, path \in RacePaths, file \in BOOLEAN :
           CreateBegin(c, path, file)
    \/ \E c \in RaceClients : CreateCheck(c)
    \/ \E c \in RaceClients : CreateAppend(c)
    \/ \E storage_server \in RaceServers : Register(storage_server)

SpecRace == InitOps /\ [][NextRace]_vars

WriteClients == {"c1", "c3"}

WriteMenu(c) == IF c = "c1" THEN {P_file} ELSE {P_root}

InitWrites ==
    /\ locations = <<Location(<<"/">>, <<2>>), Location(S_file, <<>>)>>
    /\ registry = <<StorageServer(1, 2, <<P_file>>), StorageServer(3, 4, <<P_file>>)>>
    /\ access_counts = << >>
    /\ sent = <<>>
    /\ mu = FALSE
    /\ pc = [c \in Clients |-> "idle"]
    /\ req = [c \in Clients |-> NoLock]
    /\ cur = [c \in Clients |-> 0]
    /\ idx = [c \in Clients |-> 0]
    /\ nxt = [c \in Clients |-> 0]
    /\ qi = [c \in Clients |-> 0]
    /\ tmp_n = [c \in Clients |-> 0]
    /\ tmp_s = [c \in Clients |-> <<>>]
    /\ written = NoResponse
    /\ nreq = 0
    /\ ahead = [c \in Clients |-> {}]
    /\ snap = NoSnap

NextWrites ==
    \/ \E c \in WriteClients : \E path \in WriteMenu(c), exclusive \in BOOLEAN :
           HandleLock(c, path, exclusive)
    \/ \E c \in WriteClients : HandleUnlock(c)
    \/ \E c \in WriteClients : Serve(c)

SpecWrites == InitWrites /\ [][NextWrites]_vars

\* two storage servers have registered with /file; a client creates /d and
\* deletes paths while any of the storage servers may be out of reach
DownPaths == {P_root, P_file, P_d}

CommandPorts == {2, 4}

NextDown ==
    \/ \E c \in OpsClients, path \in DownPaths, down \in SUBSET CommandPorts :
           DeleteUnreachable(c, path, down)
    \/ \E c \in OpsClients, file \in BOOLEAN : Create(c, P_d, file)

SpecDown == InitWrites /\ [][NextDown]_vars

----------------------------------------------------------------------------
(* Properties *)

\* the location a path names: the walk from the root along its components,
\* 0 when a component is missing
RECURSIVE Descend(_, _)
Descend(l, names) ==
    IF names = <<>> THEN l
    ELSE LET subs == locations[l].subLocations
             hits == {k \in 1..Len(subs) : locations[subs[k]].name = Head(names)}
         IN IF hits = {} THEN 0
            ELSE Descend(subs[CHOOSE k \in hits : TRUE], Tail(names))

Resolve(path) == IF path = P_root THEN Root ELSE Descend(Root, Tail(Split(path)))

\* the locations on the way from the root to location l, l excluded
RECURSIVE AncestorsOf(_)
AncestorsOf(l) ==
    IF l = Root \/ l = 0 THEN {}
    ELSE LET parent == CHOOSE q \in DOMAIN locations :
                 \E k \in 1..Len(locations[q].subLocations) :
                     locations[q].subLocations[k] = l
         IN {parent} \cup AncestorsOf(parent)

\* path q lies strictly below path p
StrictlyBelow(q, p) ==
    /\ Resolve(p) # 0 /\ Resolve(q) # 0
    /\ Resolve(p) \in AncestorsOf(Resolve(q))

\* the goroutines waiting in a loop of LockLocation on location l
WaitingOn(l) == {c \in Clients : cur[c] = l /\ pc[c] \in {"base_spin", "pre_wait"}}

\* the waiting goroutine c leaves its loop at its next pass
CanProceed(c) ==
    /\ ~mu
    /\ IF pc[c] = "base_spin" THEN SpinCanGrant(c)
       ELSE Len(locations[cur[c]].locks) = 0

\* the modes of a list of locks
Modes(ls) == [i \in 1..Len(ls) |-> ls[i].Exclusive]

\* the lock state with the tickets left out
Shape(st) ==
    [l \in DOMAIN st |->
        [locks |-> Modes(st[l].locks), lock_queue |-> Modes(st[l].lock_queue),
         waiting |-> Len(st[l].exclusive_locks_waiting)]]

\* C1: the holders of every location are no lock, shared locks only, or
\* exactly one exclusive lock
C1_HoldersCompatible ==
    \A l \in DOMAIN locations :
        LET held == locations[l].locks
        IN \/ held = <<>>
           \/ \A i \in 1..Len(held) : ~held[i].Exclusive
           \/ Len(held) = 1 /\ held[1].Exclusive

\* C2: a shared request that was enqueued on a location after an exclusive
\* request, with a larger ticket, does not hold the location while that
\* exclusive request is still waiting
C2_SharedBehindExclusive ==
    \A c \in Clients, d \in Clients :
        ~ /\ pc[c] = "holding" /\ ~req[c].Exclusive
          /\ pc[d] = "base_spin" /\ req[d].Exclusive
          /\ cur[d] = cur[c]
          /\ d \in ahead[c]
          /\ qi[d] < qi[c]

\* C3: under fair scheduling every accepted /lock request is eventually granted
C3_EveryLockGranted ==
    \A c \in FairClients : (pc[c] = "lock_walk") ~> (pc[c] = "holding")

\* C4: an exclusive request holds its location only when every request
\* enqueued on the location before it has been granted and released
C4_ExclusiveInArrivalOrder ==
    \A c \in Clients :
        (pc[c] = "holding" /\ req[c].Exclusive) => ahead[c] = {}

\* C5: when a location has no exclusive holder, a waiting shared request with
\* no exclusive request before it in the queue is granted at the next pass of
\* its loop
C5_SharedBatchGranted ==
    \A c \in Clients :
        LET loc == locations[cur[c]]
        IN ( /\ pc[c] = "base_spin" /\ ~req[c].Exclusive
             /\ \A i \in 1..Len(loc.locks) : ~loc.locks[i].Exclusive
             /\ \E i \in 1..Len(loc.lock_queue) : loc.lock_queue[i] = LockOf(c)
             /\ \A i \in 1..Len(loc.lock_queue) :
                    loc.lock_queue[i] = LockOf(c)
                       => \A j \in 1..i : ~loc.lock_queue[j].Exclusive )
           => SpinCanGrant(c)

\* C6: no client holds a lock on a path strictly below a directory that
\* another client holds exclusively
C6_ExclusiveDirectoryCoversSubtree ==
    \A c \in Clients, d \in Clients :
        ~ /\ c # d
          /\ pc[c] = "holding" /\ req[c].Exclusive
          /\ pc[d] = "holding"
          /\ StrictlyBelow(req[d].PathString, req[c].PathString)

\* C7: a granted lock is held by the location its path names, and when no
\* other request ran meanwhile every strict ancestor of that location has
\* gained exactly one holder, which is shared
C7_LockPlacedOnTarget ==
    \A c \in Clients :
        pc[c] = "holding" =>
            LET target == Resolve(req[c].PathString)
            IN /\ cur[c] = target
               /\ snap.c = c =>
                    \A l \in AncestorsOf(target) :
                       /\ Len(locations[l].locks) = Len(snap.pre[l].locks) + 1
                       /\ ~locations[l].locks[Len(locations[l].locks)].Exclusive

\* C8: a /lock run to its grant and the matching /unlock, with no step of
\* another request in between, leave the holders, the queue and the exclusive
\* waiters of every location as they were, up to the tickets
C8_LockUnlockRestores ==
    \A c \in Clients :
        (snap.c = c /\ pc[c] = "idle") => Shape(LockState(locations)) = Shape(snap.pre)

\* C9: the lock protocol does not deadlock: when all granted locks are
\* released some waiting request can proceed, and on a location without
\* holders some request waiting on it can proceed
C9_NoDeadlock ==
    /\ ( /\ \A c \in Clients : pc[c] \in {"idle", "base_spin", "pre_wait"}
         /\ \E c \in Clients : pc[c] # "idle" )
       => \E c \in Clients : pc[c] # "idle" /\ CanProceed(c)
    /\ \A l \in DOMAIN locations :
          (locations[l].locks = <<>> /\ WaitingOn(l) # {})
             => \E c \in WaitingOn(l) : CanProceed(c)

\* C10: a /lock on a valid path that names no location is answered with
\* FileNotFoundException in one step, and the step changes no location; the
\* request of a HandleLock step of c is read from the response when the step
\* answers and from req[c] when it calls LockLocation
C10_LockOfMissingPath ==
    [][\A c \in Clients :
          LET lock == IF pc'[c] = "lock_walk" THEN req'[c] ELSE written'.req
          IN ( /\ pc[c] = "idle" /\ (written'.c = c \/ pc'[c] = "lock_walk")
               /\ IsPathValid(lock.PathString)
               /\ Resolve(lock.PathString) = 0
               /\ HandleLock(c, lock.PathString, lock.Exclusive) )
             => /\ written'.status = "FileNotFoundException"
                /\ written'.c = c
                /\ pc'[c] = "idle"
                /\ locations' = locations]_vars

\* C10 witness: a missing path was refused while another request was waiting
C10_Witness ==
    /\ written.status = "FileNotFoundException"
    /\ written.req.PathString = P_ab
    /\ \E d \in Clients : pc[d] = "base_spin"

\* the holders of the location named by path whose mode is exclusive
Holders(path, exclusive) ==
    IF Resolve(path) = 0 THEN {}
    ELSE {i \in 1..Len(locations[Resolve(path)].locks) :
             locations[Resolve(path)].locks[i].Exclusive = exclusive}

\* C11: an /unlock of an existing path that has no holder in the mode of the
\* request is answered with IllegalArgumentException
C11_UnlockOfUnheldPath ==
    [][\A c \in Clients :
          ( /\ pc[c] = "unlock_walk" /\ pc'[c] = "idle"
            /\ Resolve(req[c].PathString) # 0
            /\ Holders(req[c].PathString, req[c].Exclusive) = {} )
          => written'.status = "IllegalArgumentException"]_vars

\* the path of the parent of a path other than the root
ParentOf(path) ==
    LET k == CHOOSE i \in 1..Len(path) :
                 /\ path[i] = "/"
                 /\ \A j \in (i+1)..Len(path) : path[j] # "/"
    IN IF k = 1 THEN P_root ELSE SubSeq(path, 1, k - 1)

\* the parent of path is in the tree and /is_directory reports it a directory
ParentIsDirectory(path) ==
    /\ Resolve(ParentOf(path)) # 0
    /\ IsDirectoryAnswer(locations, ParentOf(path)) = "success:true"

\* the paths none of whose components contains "file"
PlainPaths == {p \in OpsPaths \ {P_root} : ~ContainsX(Split(TrimLeft(p)), S_file)}

\* C12: when /create_directory(p) answers success=true for a path p whose
\* parent is a directory of the tree, /is_directory(p) answers success=true in
\* the tree the command leaves
C12_CreatedDirectoryIsDirectory ==
    [][\A c \in OpsClients, p \in PlainPaths :
          ( /\ written'.status = "success:true"
            /\ ParentIsDirectory(p)
            /\ Create(c, p, FALSE) )
          => IsDirectoryAnswer(locations', p) = "success:true"]_vars

\* C13: when /create_file(p) answers success=true for a path p whose parent is
\* a directory of the tree, /is_directory(p) answers success=false in the tree
\* the command leaves
C13_CreatedFileIsNotDirectory ==
    [][\A c \in OpsClients, p \in OpsPaths \ {P_root} :
          ( /\ written'.status = "success:true"
            /\ ParentIsDirectory(p)
            /\ Create(c, p, TRUE) )
          => IsDirectoryAnswer(locations', p) = "success:false"]_vars

\* the registered server i was sent a /storage_create for path
StorageCreateSent(cmds, reg, i, path) ==
    \E k \in 1..Len(cmds) :
        cmds[k] = [cmd |-> "/storage_create", to |-> reg[i].CommandPort,
                   path |-> path]

\* the registered server i is recorded as a host of path
RecordedHost(reg, i, path) ==
    \E k \in 1..Len(reg[i].Files) : reg[i].Files[k] = path

\* C14: when /create_file(p) answers success=true on a naming server with a
\* registered storage server, some registered server has been sent a
\* /storage_create for p, is recorded as a host of p, and is the server that
\* /get_storage(p) returns
C14_CreatedFileHasStorage ==
    [][\A c \in OpsClients, p \in OpsPaths \ {P_root} :
          ( /\ written'.status = "success:true"
            /\ registry # <<>>
            /\ ParentIsDirectory(p)
            /\ Create(c, p, TRUE) )
          => \E i \in 1..Len(registry') :
                /\ StorageCreateSent(sent', registry', i, p)
                /\ RecordedHost(registry', i, p)
                /\ GetStorageAnswer(locations', registry', p) =
                      [status |-> "StorageInfo",
                       server_ip |-> registry'[i].StorageIP,
                       server_port |-> registry'[i].ClientPort]]_vars

\* C15: /create_file and /create_directory on a path that names a location of
\* the tree answer success=false, change no location and send no command
C15_CreateOfExistingPath ==
    [][\A c \in OpsClients, p \in OpsPaths, file \in BOOLEAN :
          ( /\ written'.c = c
            /\ Resolve(p) # 0
            /\ Create(c, p, file) )
          => /\ written'.status = "success:false"
             /\ locations' = locations
             /\ sent' = sent]_vars

\* C16: when the response before a create command is success=true to a
\* /create_file of the parent of p, so that the parent of p is a file, the
\* create command on p answers FileNotFoundException and changes no location;
\* and so does a create command on a path whose parent names no location
C16_CreateUnderFileOrMissingParent ==
    [][\A c \in OpsClients, p \in OpsPaths \ {P_root}, file \in BOOLEAN :
          ( /\ written'.c = c
            /\ \/ Resolve(ParentOf(p)) = 0
               \/ written = Answer(c, [PathString |-> ParentOf(p), file |-> TRUE],
                                   "success:true")
            /\ Create(c, p, file) )
          => /\ written'.status = "FileNotFoundException"
             /\ locations' = locations]_vars

\* C17: while no storage server is registered, a /create_file of a new path
\* whose parent is a directory answers IllegalStateException and changes no
\* location
C17_CreateFileWithoutStorage ==
    [][\A c \in OpsClients, p \in OpsPaths \ {P_root} :
          ( /\ written'.c = c
            /\ registry = <<>>
            /\ Resolve(p) = 0
            /\ ParentIsDirectory(p)
            /\ Create(c, p, TRUE) )
          => /\ written'.status = "IllegalStateException"
             /\ locations' = locations]_vars

\* C18: a /delete of the root "/" does not answer success=true, sends no
\* command to a storage server and leaves the root location as it was
C18_DeleteOfRoot ==
    [][\A c \in OpsClients :
          ( /\ written'.c = c
            /\ Delete(c, P_root) )
          => /\ written'.status # "success:true"
             /\ sent' = sent
             /\ locations'[Root] = locations[Root]]_vars

\* C19: when /delete(p) answers success=true for a path p other than the root
\* that names a location, then in the state the command leaves p names no
\* location and /is_directory(p), /list(p) and /get_storage(p) answer
\* FileNotFoundException
C19_DeletedPathIsGone ==
    [][\A c \in OpsClients, p \in DeletePaths \ {P_root} :
          ( /\ written'.c = c
            /\ written'.status = "success:true"
            /\ Resolve(p) # 0
            /\ Delete(c, p) )
          => /\ PathExists(locations', p) = FALSE
             /\ IsDirectoryAnswer(locations', p) = "FileNotFoundException"
             /\ ListAnswer(locations', p).status = "FileNotFoundException"
             /\ GetStorageAnswer(locations', registry', p).status =
                   "FileNotFoundException"]_vars

\* C20: a /register whose client port or command port is that of a registered
\* storage server is answered with IllegalStateException and changes neither
\* the registry nor any location, whatever files it reports
C20_RegisterOfRegisteredPort ==
    [][\A storage_server \in StorageServers :
          ( /\ written'.c = "storage"
            /\ \E i \in 1..Len(registry) :
                   \/ registry[i].ClientPort = storage_server.ClientPort
                   \/ registry[i].CommandPort = storage_server.CommandPort
            /\ Register(storage_server) )
          => /\ written'.status = "IllegalStateException"
             /\ registry' = registry
             /\ locations' = locations]_vars

\* C20 witness: a /register that reports a file the tree does not hold was
\* refused because only its command port is that of a registered server
C20_Witness ==
    /\ written.c = "storage"
    /\ written.status = "IllegalStateException"
    /\ written.req.Files # <<>>
    /\ Resolve(written.req.Files[1]) = 0
    /\ \E i \in 1..Len(registry) : registry[i].CommandPort = written.req.CommandPort
    /\ \A i \in 1..Len(registry) : registry[i].ClientPort # written.req.ClientPort

\* path is one of the paths of the list files
Listed(files, path) == \E k \in 1..Len(files) : files[k] = path

\* C21: an accepted /register, whose reported paths are distinct and none
\* below another, answers with a delete list that holds exactly the reported
\* paths that named a location before it; every other reported path names a
\* location after it
C21_RegisterAddsReportedPaths ==
    [][\A storage_server \in StorageServers :
          ( /\ written'.c = "storage"
            /\ written'.status = "registered"
            /\ Register(storage_server) )
          => \A k \in 1..Len(storage_server.Files) :
                LET f == storage_server.Files[k]
                IN IF Resolve(f) # 0
                   THEN Listed(written'.files, f)
                   ELSE /\ ~Listed(written'.files, f)
                        /\ PathExists(locations', f)]_vars

\* C22: for every path reported by a registered storage server, /get_storage
\* answers with the address and client port of the first server of the
\* registry that reported it
C22_GetStorageOfReportedFile ==
    \A i \in 1..Len(registry) :
        \A k \in 1..Len(registry[i].Files) :
            LET f == registry[i].Files[k]
            IN (\A j \in 1..(i-1) : ~Listed(registry[j].Files, f))
                  => GetStorageAnswer(locations, registry, f) =
                        [status |-> "StorageInfo",
                         server_ip |-> registry[i].StorageIP,
                         server_port |-> registry[i].ClientPort]

\* the access counter of /f, 0 while the map has no entry for it
CountOf(counts) == IF P_f \in DOMAIN counts THEN counts[P_f] ELSE 0

\* the step ends an /unlock of c that released a holder of /f
Released(c) ==
    /\ pc[c] = "unlock_walk" /\ pc'[c] = "idle"
    /\ req[c].PathString = P_f
    /\ written'.status = "200"
    /\ Len(locations'[Resolve(P_f)].locks) = Len(locations[Resolve(P_f)].locks) - 1

\* the /storage_copy of /f from the first registered server to the second
CopyOfF ==
    [cmd |-> "/storage_copy", to |-> registry[2].CommandPort, path |-> P_f,
     server_port |-> registry[1].ClientPort]

\* C23: while /f, reported by the first of two registered servers, gets
\* shared /lock and /unlock pairs only, a successful unlock that finds the
\* counter of /f at 19 sets it to 0 and sends one /storage_copy of /f, with the
\* client port of the first server, to the second server; every other
\* successful unlock adds one to the counter and sends nothing; no other step
\* changes the counter or sends a command; the counter stays within 0..19
C23_CopyOnEveryTwentiethUnlock ==
    [][/\ CountOf(access_counts') \in 0..19
       /\ IF \E c \in ReadClients : Released(c)
          THEN IF CountOf(access_counts) = 19
               THEN /\ CountOf(access_counts') = 0
                    /\ sent' = Append(sent, CopyOfF)
               ELSE /\ CountOf(access_counts') = CountOf(access_counts) + 1
                    /\ sent' = sent
          ELSE /\ access_counts' = access_counts
               /\ sent' = sent]_vars

\* C23 witness: the twentieth unlock, of c1, has sent the copy and reset the
\* counter while an /unlock of c2 is running
C23_Witness ==
    /\ sent = <<CopyOfF>>
    /\ CountOf(access_counts) = 0
    /\ written.c = "c1" /\ written.status = "200"
    /\ pc["c2"] = "unlock_walk"

\* the step ends an exclusive /unlock of c on /file that released its holder
ReleasedExclusive(c) ==
    /\ pc[c] = "unlock_walk" /\ pc'[c] = "idle"
    /\ req[c] = [PathString |-> P_file, Exclusive |-> TRUE]
    /\ written'.status = "200"
    /\ cur[c] = Resolve(P_file)
    /\ Len(locations'[cur[c]].locks) = Len(locations[cur[c]].locks) - 1

\* the registered servers that reported path, in registration order
HostsOf(path) == {i \in 1..Len(registry) : Listed(registry[i].Files, path)}

\* the commands sent by the step
NewlySent == {sent'[k] : k \in (Len(sent) + 1)..Len(sent')}

\* C24: a successful exclusive /unlock of /file, which the first registered
\* server reported first, sends /storage_delete for /file to every other
\* registered server and not to the first
C24_DeleteSparesOwner ==
    [][\A c \in WriteClients :
          ReleasedExclusive(c) =>
             LET owner == CHOOSE i \in HostsOf(P_file) :
                              \A j \in HostsOf(P_file) : i <= j
             IN NewlySent =
                   {[cmd |-> "/storage_delete", to |-> registry[i].CommandPort,
                     path |-> P_file] : i \in (1..Len(registry)) \ {owner}}]_vars


\* the strings /is_valid_path is to answer with success false: the empty
\* string, a string that does not start with "/", a string with a colon and
\* a string with two "/" in a row
Malformed(path) ==
    \/ Len(path) = 0
    \/ path[1] # "/"
    \/ \E i \in 1..Len(path) : path[i] = ":"
    \/ \E i \in 1..(Len(path) - 1) : path[i] = "/" /\ path[i + 1] = "/"

\* C25: /is_valid_path answers success false for the empty string, for a string
\* that does not start with "/", for a string that contains ":" and for a
\* string that contains "//", and success true for every other string; it
\* never answers with an exception
C25_IsValidPathAnswer ==
    [][\A c \in OpsClients, path \in Strings :
          IsValidPath(c, path) =>
              written'.status = IF Malformed(path) THEN "success:false"
                                ELSE "success:true"]_vars


\* the strings that fail the validation that the commands apply
FailsValidation(path) ==
    \/ Len(path) = 0
    \/ path[1] # "/"
    \/ \E i \in 1..Len(path) : path[i] = ":"

\* a step in which a command that takes a path is served for c with this path
TakesPath(c, path) ==
    \/ IsDirectory(c, path)
    \/ List(c, path)
    \/ GetStorage(c, path)
    \/ \E file \in BOOLEAN : Create(c, path, file)
    \/ Delete(c, path)
    \/ \E exclusive \in BOOLEAN : HandleLock(c, path, exclusive)
    \/ \E exclusive \in BOOLEAN : ReceiveUnlock(c, path, exclusive)

ChildNames(l) ==
    [k \in 1..Len(locations[l].subLocations) |->
        locations[locations[l].subLocations[k]].name]

\* C27: /list(p) answers with exactly the names of the direct children of p
\* when p is a directory of the tree, at any depth, and with
\* FileNotFoundException when p is a file or is not in the tree. The tree
\* keeps no mark of what is a file: a location with children and the root are
\* directories, a location without children may be either.
C27_ListOfDirectory ==
    "files" \in DOMAIN written /\ "PathString" \in DOMAIN written.req =>
        LET p == written.req.PathString
            l == Resolve(p)
        IN IF l = 0
           THEN written.status = "FileNotFoundException"
           ELSE IF l = Root \/ locations[l].subLocations # <<>>
           THEN /\ written.status = "files"
                /\ written.files = ChildNames(l)
           ELSE \/ written.status = "FileNotFoundException"
                \/ written.status = "files" /\ written.files = <<>>


\* the exclusive requests that wait on location l with a ticket smaller than n
ExclusiveWaitingBefore(l, n) ==
    {d \in Clients :
        /\ pc[d] = "base_spin" /\ cur[d] = l
        /\ req[d].Exclusive /\ qi[d] < n}

\* C28: the shared lock that a /lock on a descendant places on an ancestor
\* obeys the queue rules of a direct shared request: it is not granted while
\* an exclusive request with a smaller ticket waits on that ancestor
C28_PrefixLockKeepsQueueOrder ==
    [][\A c \in Clients :
          PreStoreLocks(c) => ExclusiveWaitingBefore(cur[c], qi[c]) = {}]_vars


\* C29: on every location, under any interleaving of concurrent /lock
\* requests, the tickets of the entries of lock_queue are pairwise distinct
\* and strictly increasing from head to tail
C29_TicketsIncrease ==
    \A l \in DOMAIN locations :
        LET q == locations[l].lock_queue
        IN \A i \in 1..Len(q) : \A j \in 1..Len(q) :
               i < j => q[i].queue_index < q[j].queue_index


\* the tickets of the exclusive entries of a queue, in queue order
RECURSIVE ExclusiveTickets(_)
ExclusiveTickets(q) ==
    IF q = <<>> THEN <<>>
    ELSE IF Head(q).Exclusive
    THEN <<Head(q).queue_index>> \o ExclusiveTickets(Tail(q))
    ELSE ExclusiveTickets(Tail(q))

\* C30: on every location, after every step of a lock and of an unlock,
\* exclusive_locks_waiting is the list of the tickets of the exclusive entries
\* of lock_queue, in queue order
C30_WaitingMatchesQueue ==
    \A l \in DOMAIN locations :
        locations[l].exclusive_locks_waiting =
            ExclusiveTickets(locations[l].lock_queue)


\* the lock that the request of c was granted is held on some location
HoldsOwnLock(c) ==
    \E l \in DOMAIN locations :
        \E i \in 1..Len(locations[l].locks) : locations[l].locks[i] = LockOf(c)

\* the unlock of c passes the location cur[c] on its way to the location of
\* its path and takes a lock off it
ReleasesPrefix(c) ==
    /\ pc[c] = "unlock_walk" /\ pc'[c] = "unlock_walk"
    /\ cur'[c] # cur[c]
    /\ Len(locations'[cur[c]].locks) < Len(locations[cur[c]].locks)

\* C31: /lock(P) takes the shared locks on the locations from the root down
\* to the parent of P before the lock on P, and /unlock(P) releases in the
\* reverse order: the lock on P first, then the locks from the parent of P up
\* to the root. A lock is taken off a location above P only when the lock on
\* P is no longer held.
C31_ReleaseLeafToRoot ==
    [][\A c \in Clients : ReleasesPrefix(c) => ~HoldsOwnLock(c)]_vars


\* C32: when two storage servers report the same path at registration, the
\* first one stays the owner of the file: every /storage_copy for the path
\* names the client port of the first registrant as its source and is sent
\* only to servers other than the first registrant
C32_CopyNamesFirstRegistrant ==
    \A k \in 1..Len(sent) :
        sent[k].cmd = "/storage_copy" =>
            LET owner == HostOf(registry, sent[k].path)
            IN /\ owner # 0
               /\ sent[k].server_port = registry[owner].ClientPort
               /\ sent[k].to # registry[owner].CommandPort


\* the step ends a shared /unlock of c that took a holder off a location
ReleasedShared(c) ==
    /\ pc[c] = "unlock_walk" /\ pc'[c] = "idle"
    /\ ~req[c].Exclusive
    /\ written'.status = "200"
    /\ Len(locations'[cur[c]].locks) = Len(locations[cur[c]].locks) - 1

\* the access counters other than the one of path are what they were
OnlyCounts(path) ==
    \A f \in (DOMAIN access_counts \cup DOMAIN access_counts') \ {path} :
        /\ f \in DOMAIN access_counts /\ f \in DOMAIN access_counts'
        /\ access_counts'[f] = access_counts[f]

\* C33: an access counter is changed, and a /storage_copy is sent, only by a
\* successful shared /unlock, and only for the path of that unlock; an exclusive
\* unlock and an unlock that matched no holder change no counter and send no
\* /storage_copy
C33_OnlySharedUnlockCounts ==
    [][( \/ access_counts' # access_counts
         \/ \E m \in NewlySent : m.cmd = "/storage_copy" )
       => \E c \in WriteClients :
              /\ ReleasedShared(c)
              /\ OnlyCounts(req[c].PathString)
              /\ \A m \in NewlySent :
                     m.cmd = "/storage_copy" => m.path = req[c].PathString]_vars


\* no location has two sublocations of one name
NoDuplicateSiblings(locs) ==
    \A l \in DOMAIN locs :
        LET subs == locs[l].subLocations
        IN \A i \in 1..Len(subs) : \A j \in 1..Len(subs) :
               i # j => locs[subs[i]].name # locs[subs[j]].name

\* C34: after any interleaving of concurrent /create_file, /create_directory
\* and /register requests no location has two children of one name, and of
\* the concurrent creates of one new path at most one is answered with
\* success true: a create that is answered with success true made a path that
\* was not in the tree when it was answered
C34_ConcurrentCreates ==
    [][/\ NoDuplicateSiblings(locations')
       /\ \A c \in RaceClients :
              CreateAppend(c) =>
                  ~Exists(locations, Split(TrimLeft(req[c].PathString)))]_vars


\* the paths of the strict ancestors of path, the root left out
StrictPrefixes(path) ==
    {SubSeq(path, 1, k - 1) : k \in {j \in 2..Len(path) : path[j] = "/"}}

\* path is known to be a file: a registered server reported it, or a storage
\* server was sent /storage_create for it
KnownFile(path) ==
    \/ \E i \in 1..Len(registry) : Listed(registry[i].Files, path)
    \/ \E k \in 1..Len(sent) :
           sent[k].cmd = "/storage_create" /\ sent[k].path = path

\* C35: a path reported at /register one of whose strict prefixes is a file of
\* the tree is rejected: it is returned in the list of files to delete and
\* the file gets no child
C35_RegisterBelowFile ==
    [][\A storage_server \in StorageServers :
          ( /\ Register(storage_server)
            /\ written'.status = "registered" )
          => \A k \in 1..Len(storage_server.Files) :
                 \A q \in StrictPrefixes(storage_server.Files[k]) :
                     ( /\ KnownFile(q) /\ Resolve(q) # 0
                       /\ locations[Resolve(q)].subLocations = <<>> )
                     => /\ Listed(written'.files, storage_server.Files[k])
                        /\ locations'[Resolve(q)].subLocations = <<>>]_vars


\* C36: a /delete of a file of the tree sends /storage_delete for the path to
\* every registered storage server that hosts the file, the owner included,
\* whether one storage server is registered or more
C36_DeleteReachesEveryHost ==
    [][\A c \in OpsClients, path \in DeletePaths :
          ( /\ Delete(c, path)
            /\ written'.status = "success:true" )
          => \A i \in HostsOf(path) :
                 [cmd |-> "/storage_delete", to |-> registry[i].CommandPort,
                  path |-> path] \in NewlySent]_vars


\* the step ends an /unlock of c that follows no grant and that took no
\* holder off the location of its path, with no step of another request
\* since the /unlock was received
StrayUnlockFailed(c) ==
    /\ pc[c] = "unlock_walk" /\ pc'[c] = "idle"
    /\ locations' = locations
    /\ snap.c = c

\* C37: an /unlock whose mode matches no holder on the location of its path
\* takes no holder and no queue entry off any location, the ancestors of
\* that location included: the locks are as they were when it was received
C37_FailedUnlockRemovesNothing ==
    [][StrayUnlockFailed("c3") => LockState(locations') = snap.pre]_vars


\* C38: every entry of the lock_queue of a location belongs to a request that
\* waits for or holds that location: once every request has been granted and
\* released, the lock_queue and the exclusive_locks_waiting of every location
\* are empty
C38_QueueEmptyWhenIdle ==
    (\A c \in Clients : pc[c] = "idle") =>
        \A l \in DOMAIN locations :
            /\ locations[l].lock_queue = <<>>
            /\ locations[l].exclusive_locks_waiting = <<>>


\* the step ends an exclusive /unlock of c on the root that released its
\* holder
ReleasedRootExclusive(c) ==
    /\ pc[c] = "unlock_walk" /\ pc'[c] = "idle"
    /\ req[c] = [PathString |-> P_root, Exclusive |-> TRUE]
    /\ written'.status = "200"
    /\ Len(locations'[Root].locks) = Len(locations[Root].locks) - 1

\* C39: a successful exclusive /unlock of a directory, the root included,
\* sends no /storage_delete to any storage server
C39_DirectoryUnlockSendsNoDelete ==
    [][\A c \in WriteClients :
          ReleasedRootExclusive(c) =>
              \A m \in NewlySent : m.cmd # "/storage_delete"]_vars


\* C40: when sending /storage_delete to one storage server fails, the command
\* is still sent to every other storage server of the round: a /delete that
\* is answered with success true sends it to every registered server that can
\* be reached
C40_FailedSendDoesNotStopRound ==
    [][\A c \in OpsClients, path \in DownPaths, down \in SUBSET CommandPorts :
          ( /\ DeleteUnreachable(c, path, down)
            /\ written'.status = "success:true" )
          => \A i \in 1..Len(registry) :
                 registry[i].CommandPort \notin down =>
                     [cmd |-> "/storage_delete", to |-> registry[i].CommandPort,
                      path |-> path] \in NewlySent]_vars

====
